---- MODULE Spec2Model ----
(***************************************************************************)
(* web-intel: the query orchestrator (core/orchestrator.py) with the file  *)
(* storage's sessions (storage/file_storage.py, models/session.py), and    *)
(* the crawl pipeline (crawlers/crawl4ai.py, models/crawl_result.py).      *)
(*                                                                         *)
(* Strings are sequences of one-character strings, so that concatenation,  *)
(* emptiness and parsing are computed and not assumed.                     *)
(***************************************************************************)
EXTENDS Integers, Sequences, FiniteSets, TLC

VARIABLES
    sessions,   \* sessions_path: session id -> persisted JSON record, NoRecord or Corrupt
    task,       \* one orchestrator call per task: its position and its locals
    turns,      \* number of orchestrator calls started so far
    log,        \* history: the turns that ran to completion, in completion order
    crawl,      \* one Crawl4AICrawler.crawl call: its position and its locals
    crawls,     \* crawls_path: file name -> the file's content, or NoRecord
    client,     \* a client of FileStorage: its clock, its last call and what it holds
    cli         \* one run of a CLI command: its position, what was raised, its exit status

vars == <<sessions, task, turns, log, crawl, crawls, client, cli>>

(***************************************************************************)
(* Bounds                                                                  *)
(***************************************************************************)
MaxTurns == 2
MaxFrags == 2
MaxInputs == 3         \* lines typed in one interactive run

Tasks == {1, 2}

(***************************************************************************)
(* Input alphabets                                                         *)
(***************************************************************************)
NoSession == <<>>                 \* session_id None or "": falsy in `if session_id:`
SessionIds == {<<"s">>}
Prompts == {<<"p">>, <<"q">>}
Responses == {<<"a">>, <<"b">>}   \* QueryResult.response is never empty (query.py:62-65)
Fragments == {<<"a">>, <<"b">>}
Paths == {"missing", "empty", "doc"}
MaxTokensInputs == {0, 4000}
AgentFailures == {"AgentError", "RuntimeError"}

NoRecord == [file |-> "absent"]   \* no file <session_id>.json
Corrupt == [file |-> "corrupt"]   \* a file whose text is not the JSON of a session
NoObject == "None"                \* None, for an Optional[str]
NoSessionObject == [none |-> TRUE]  \* session: Optional[Session] = None

\* The file system under the source paths: which exist, and their text.
PathExists(path) == path # "missing"

FileText(path) == IF path = "doc" THEN <<"c">> ELSE <<>>

(***************************************************************************)
(* models/session.py                                                       *)
(***************************************************************************)
\* datetime values are counted in microseconds. isoformat() writes the
\* seconds and, only when they are not zero, the microseconds;
\* fromisoformat() reads both forms.
isoformat_to_the_second(dt) == <<dt \div 1000000>>

isoformat(dt) ==
    IF dt % 1000000 = 0 THEN <<dt \div 1000000>>
    ELSE <<dt \div 1000000, dt % 1000000>>

fromisoformat(str) ==
    str[1] * 1000000 + (IF Len(str) > 1 THEN str[2] ELSE 0)

NoMetadata == {}                  \* the empty dict

Message(role, content, timestamp, metadata) ==
    [role |-> role, content |-> content, timestamp |-> timestamp,
     metadata |-> metadata]

\* Session(session_id=...): created_at and updated_at default to now.
NewSession(session_id, now) ==
    [session_id |-> session_id, messages |-> <<>>, context_source |-> NoObject,
     created_at |-> now, updated_at |-> now, metadata |-> NoMetadata]

add_message_front(session, role, content, metadata, created, updated) ==
    [session EXCEPT !.messages = <<Message(role, content, created, metadata)>> \o @,
                    !.updated_at = updated]

\* add_message: the Message takes its timestamp when it is built (created),
\* updated_at is read from the clock after the append (updated).
add_message(session, role, content, metadata, created, updated) ==
    [session EXCEPT !.messages = Append(@, Message(role, content, created, metadata)),
                    !.updated_at = updated]

\* Python's seq[-n:]: the last n elements, and the whole list when n = 0.
PyLastSlice(seq, n) ==
    IF n = 0 \/ n >= Len(seq) THEN seq
    ELSE SubSeq(seq, Len(seq) - n + 1, Len(seq))

get_recent_messages(session, n) ==
    LET recent == IF Len(session.messages) > n
                    THEN PyLastSlice(session.messages, n)
                    ELSE session.messages
    IN [i \in 1..Len(recent) |->
            [role |-> recent[i].role, content |-> recent[i].content]]

to_dict(session) ==
    [session_id |-> session.session_id,
     messages |-> [i \in 1..Len(session.messages) |->
                     [role |-> session.messages[i].role,
                      content |-> session.messages[i].content,
                      timestamp |-> isoformat(session.messages[i].timestamp),
                      metadata |-> session.messages[i].metadata]],
     context_source |-> session.context_source,
     created_at |-> isoformat(session.created_at),
     updated_at |-> isoformat(session.updated_at),
     metadata |-> session.metadata]

from_dict(data) ==
    [session_id |-> data.session_id,
     messages |-> [i \in 1..Len(data.messages) |->
                     Message(data.messages[i].role, data.messages[i].content,
                             fromisoformat(data.messages[i].timestamp),
                             data.messages[i].metadata)],
     context_source |-> data.context_source,
     created_at |-> fromisoformat(data.created_at),
     updated_at |-> fromisoformat(data.updated_at),
     metadata |-> data.metadata]

(***************************************************************************)
(* models/query.py                                                         *)
(***************************************************************************)
QueryContextValidBudgetOnly(content, max_tokens) == max_tokens > 0

\* QueryContext.__post_init__: the ValueError it raises, if any.
QueryContextValid(content, max_tokens) ==
    /\ content # <<>>
    /\ max_tokens > 0

(***************************************************************************)
(* agents/ollama.py: prepare_context and _build_prompt                     *)
(***************************************************************************)
\* "\n\n[Note: Content truncated to fit context window]", as one element.
TruncationNotice == <<"[Note: Content truncated to fit context window]">>

prepare_context_strict(content, max_tokens) ==
    LET max_chars == max_tokens * 4
    IN IF Len(content) < max_chars THEN content
       ELSE SubSeq(content, 1, max_chars) \o TruncationNotice

\* OllamaAgent.prepare_context
prepare_context(content, max_tokens) ==
    LET max_chars == max_tokens * 4
    IN IF Len(content) <= max_chars THEN content
       ELSE SubSeq(content, 1, max_chars) \o TruncationNotice

\* str.capitalize() of a role.
Capitalize(role) ==
    IF role = "user" THEN "User"
    ELSE IF role = "assistant" THEN "Assistant"
    ELSE role

Part(part, role, text) == [part |-> part, role |-> role, text |-> text]

build_prompt_last_three(prompt, content, max_tokens, conversation_history) ==
    LET shown == PyLastSlice(conversation_history, 3)
        history == IF conversation_history = <<>> THEN <<>>
                   ELSE <<Part("previous_conversation", "none", <<>>)>> \o
                        [i \in 1..Len(shown) |->
                            Part("history", Capitalize(shown[i].role),
                                 shown[i].content)]
    IN <<Part("system", "none", <<>>),
         Part("content", "none", prepare_context(content, max_tokens))>>
       \o history
       \o <<Part("question", "none", prompt), Part("answer", "none", <<>>)>>

\* _build_prompt: the parts of the f-string, in order. The history is
\* conversation_history[-5:], one "{role.capitalize()}: {content}" line each.
build_prompt(prompt, content, max_tokens, conversation_history) ==
    LET shown == PyLastSlice(conversation_history, 5)
        history == IF conversation_history = <<>> THEN <<>>
                   ELSE <<Part("previous_conversation", "none", <<>>)>> \o
                        [i \in 1..Len(shown) |->
                            Part("history", Capitalize(shown[i].role),
                                 shown[i].content)]
    IN <<Part("system", "none", <<>>),
         Part("content", "none", prepare_context(content, max_tokens))>>
       \o history
       \o <<Part("question", "none", prompt), Part("answer", "none", <<>>)>>

(***************************************************************************)
(* core/orchestrator.py: what the caller sees of an exception raised       *)
(* inside the try block of each path.                                      *)
(***************************************************************************)
QueryWithSourceHandler(kind) ==
    IF kind = "StorageError" THEN "StorageError"
    ELSE IF kind = "AgentError" THEN "AgentError"
    ELSE "AgentError"

StreamQueryHandler(kind) == "AgentError"

Handler(mode, kind) ==
    IF mode = "blocking" THEN QueryWithSourceHandler(kind)
    ELSE StreamQueryHandler(kind)

IdleTask ==
    [pc |-> "idle", mode |-> "blocking", prompt |-> <<>>, path |-> "doc",
     sid |-> NoSession, max_tokens |-> 0, content |-> <<>>,
     session |-> NoSessionObject, history |-> <<>>, full_response |-> <<>>,
     frags |-> <<>>, raised |-> "none", stage |-> "none",
     outcome |-> "none", before |-> NoRecord, loaded |-> NoRecord,
     calls |-> <<>>,
     sent |-> <<>>]                \* the prompt the model client sent

Terminal == {"idle", "done", "failed", "closed"}

\* The except clauses: the call ends, the caller sees Handler(kind).
Failed(rec, kind, stage) ==
    [rec EXCEPT !.pc = "failed", !.raised = kind, !.stage = stage,
                !.outcome = Handler(rec.mode, kind)]

\* "Build context": QueryContext(content=..., max_tokens=..., ...), after
\* which the model client is invoked without a suspension in between.
AssembleContext(rec) ==
    IF QueryContextValid(rec.content, rec.max_tokens)
    THEN [rec EXCEPT !.pc = "dispatch"]
    ELSE Failed(rec, "ValueError", "build_context")

UpdateSessionUserOnly(rec, response, result) ==
    IF rec.sid # NoSession /\ rec.session # NoSessionObject
    THEN [rec EXCEPT !.pc = "save",
                     !.full_response = response,
                     !.session =
                        [add_message(rec.session, "user", rec.prompt,
                                     NoMetadata, 0, 0)
                         EXCEPT !.context_source = rec.path]]
    ELSE [rec EXCEPT !.pc = "done", !.full_response = response,
                     !.outcome = result]

\* "Save to session if provided": the message pair is appended in memory;
\* the turn then awaits storage.save_session.
UpdateSession(rec, response, result) ==
    IF rec.sid # NoSession /\ rec.session # NoSessionObject
    THEN [rec EXCEPT !.pc = "save",
                     !.full_response = response,
                     !.session =
                        [add_message(add_message(rec.session, "user", rec.prompt,
                                                 NoMetadata, 0, 0),
                                     "assistant", response, NoMetadata, 0, 0)
                         EXCEPT !.context_source = rec.path]]
    ELSE [rec EXCEPT !.pc = "done", !.full_response = response,
                     !.outcome = result]

Completed(t, rec) ==
    [task |-> t, sid |-> rec.sid, mode |-> rec.mode, prompt |-> rec.prompt,
     response |-> rec.full_response, frags |-> rec.frags]

(***************************************************************************)
(* storage/file_storage.py: sessions                                       *)
(***************************************************************************)
Stored(store, sid) == IF sid \in SessionIds THEN store[sid] ELSE NoRecord

session_exists(store, sid) == Stored(store, sid) # NoRecord

\* load_session on a record that can be read: a missing file is answered
\* with a new Session, an existing one is parsed.
load_session(store, sid, now) ==
    IF store[sid] = NoRecord THEN NewSession(sid, now) ELSE from_dict(store[sid])

StoreAfterLoadCreating(store, sid) ==
    IF store[sid] = NoRecord
    THEN [store EXCEPT ![sid] = to_dict(NewSession(sid, 0))]
    ELSE store

\* What load_session leaves in sessions_path: it opens the file for reading
\* only, and a missing file is answered with an in-memory Session.
StoreAfterLoad(store, sid) == store

StoreAfterSaveMerging(store, session) ==
    LET old == store[session.session_id]
        n == Len(session.messages)
    IN IF old \in {NoRecord, Corrupt} THEN [store EXCEPT ![session.session_id] = to_dict(session)]
       ELSE [store EXCEPT ![session.session_id] =
               [to_dict(session) EXCEPT !.messages =
                   old.messages \o SubSeq(to_dict(session).messages, n - 1, n)]]

\* save_session: open(filepath, "w") and write json.dumps(session.to_dict()).
StoreAfterSave(store, session) ==
    [store EXCEPT ![session.session_id] = to_dict(session)]

\* A save that fails: before the file is opened (nothing changes) or after
\* open(..., "w") has truncated it.
StoresAfterFailedSave(store, session) ==
    {store, [store EXCEPT ![session.session_id] = Corrupt]}

(***************************************************************************)
(* The steps of one orchestrator call, one per suspension point            *)
(***************************************************************************)
\* A call of query_with_source (blocking), or the first __anext__ on
\* stream_query(...) (stream): the arguments are bound, nothing has run yet.
Call(t) ==
    /\ task[t].pc \in Terminal
    /\ turns < MaxTurns
    /\ \E mode \in {"blocking", "stream"}, prompt \in Prompts, path \in Paths,
          sid \in SessionIds \cup {NoSession}, max_tokens \in MaxTokensInputs :
          task' = [task EXCEPT ![t] =
                     [IdleTask EXCEPT !.pc = "load_content", !.mode = mode,
                                      !.prompt = prompt, !.path = path,
                                      !.sid = sid, !.max_tokens = max_tokens,
                                      !.before = Stored(sessions, sid)]]
    /\ turns' = turns + 1
    /\ UNCHANGED <<sessions, log, crawl, crawls, client, cli>>

\* content = await self.storage.load_content_from_path(source_path)
LoadContent(t) ==
    /\ task[t].pc = "load_content"
    /\ LET rec == [task[t] EXCEPT !.calls = Append(@, "load_content")]
       IN \E readable \in BOOLEAN :
            task' = [task EXCEPT ![t] =
               IF ~PathExists(rec.path) \/ ~readable
               THEN Failed(rec, "StorageError", "load_content")
               ELSE LET got == [rec EXCEPT !.content = FileText(rec.path)]
                    IN IF got.sid # NoSession
                       THEN [got EXCEPT !.pc = "load_session"]
                       ELSE AssembleContext(got)]
    /\ UNCHANGED <<sessions, turns, log, crawl, crawls, client, cli>>

LoadSessionSwallowing(t) ==
    /\ task[t].pc = "load_session"
    /\ LET rec == [task[t] EXCEPT !.calls = Append(@, "load_session"),
                                  !.loaded = sessions[task[t].sid]]
           stored == sessions[task[t].sid]
       IN /\ LET s == IF stored \in {NoRecord, Corrupt}
                      THEN NewSession(rec.sid, 0) ELSE from_dict(stored)
             IN task' = [task EXCEPT ![t] =
                   AssembleContext([rec EXCEPT !.session = s,
                                       !.history = get_recent_messages(s, 5)])]
          /\ sessions' = StoreAfterLoad(sessions, task[t].sid)
    /\ UNCHANGED <<turns, log, crawl, crawls, client, cli>>

\* session = await self.storage.load_session(session_id)
\* conversation_history = session.get_recent_messages(n=5)
LoadSession(t) ==
    /\ task[t].pc = "load_session"
    /\ LET rec == [task[t] EXCEPT !.calls = Append(@, "load_session"),
                                  !.loaded = sessions[task[t].sid]]
           stored == sessions[task[t].sid]
       IN /\ \E readable \in BOOLEAN :
               task' = [task EXCEPT ![t] =
                  IF stored # NoRecord /\ (stored = Corrupt \/ ~readable)
                  THEN Failed(rec, "StorageError", "load_session")
                  ELSE LET s == load_session(sessions, rec.sid, 0)
                       IN AssembleContext([rec EXCEPT !.session = s,
                               !.history = get_recent_messages(s, 5)])]
          /\ sessions' = StoreAfterLoad(sessions, task[t].sid)
    /\ UNCHANGED <<turns, log, crawl, crawls, client, cli>>

\* result = await self.agent.query(prompt, context, **agent_kwargs)
AgentQuery(t) ==
    /\ task[t].pc = "dispatch"
    /\ task[t].mode = "blocking"
    /\ LET rec == [task[t] EXCEPT !.calls = Append(@, "query"),
                                  !.sent = build_prompt(task[t].prompt,
                                      task[t].content, task[t].max_tokens,
                                      task[t].history)]
       IN \/ \E response \in Responses :
               LET got == [rec EXCEPT !.frags = <<response>>]
               IN /\ task' = [task EXCEPT ![t] = UpdateSession(got, response, "result")]
                  /\ log' = IF rec.sid = NoSession
                              THEN Append(log, Completed(t, [got EXCEPT !.full_response = response]))
                              ELSE log
          \/ \E kind \in AgentFailures :
               /\ task' = [task EXCEPT ![t] = Failed(rec, kind, "model")]
               /\ log' = log
    /\ UNCHANGED <<sessions, turns, crawl, crawls, client, cli>>

\* async for chunk in self.agent.stream_query(...): the model client is
\* resumed and yields a fragment, ends, or raises.
AgentStreamNext(t) ==
    /\ task[t].pc \in {"dispatch", "streaming"}
    /\ task[t].mode = "stream"
    /\ LET rec == IF task[t].pc = "dispatch"
                    THEN [task[t] EXCEPT !.calls = Append(@, "stream_query"),
                                         !.sent = build_prompt(task[t].prompt,
                                             task[t].content, task[t].max_tokens,
                                             task[t].history)]
                    ELSE task[t]
       IN \/ /\ Len(rec.frags) < MaxFrags
             /\ \E chunk \in Fragments :
                  task' = [task EXCEPT ![t] =
                     [rec EXCEPT !.pc = "yielded",
                                 !.full_response = @ \o chunk,
                                 !.frags = Append(@, chunk)]]
             /\ log' = log
          \/ /\ task' = [task EXCEPT ![t] =
                   UpdateSession(rec, rec.full_response, "exhausted")]
             /\ log' = IF rec.sid = NoSession THEN Append(log, Completed(t, rec))
                       ELSE log
          \/ \E kind \in AgentFailures :
               /\ task' = [task EXCEPT ![t] = Failed(rec, kind, "model")]
               /\ log' = log
    /\ UNCHANGED <<sessions, turns, crawl, crawls, client, cli>>

\* The consumer of stream_query asks for the next fragment.
ConsumerNext(t) ==
    /\ task[t].pc = "yielded"
    /\ task' = [task EXCEPT ![t].pc = "streaming"]
    /\ UNCHANGED <<sessions, turns, log, crawl, crawls, client, cli>>

ConsumerAbandonSaving(t) ==
    /\ task[t].pc = "yielded"
    /\ task' = [task EXCEPT ![t].pc = "closed", ![t].outcome = "closed"]
    /\ sessions' =
          IF task[t].sid # NoSession
          THEN StoreAfterSave(sessions,
                  add_message(add_message(task[t].session, "user", task[t].prompt,
                                          NoMetadata, 0, 0),
                              "assistant", task[t].full_response, NoMetadata, 0, 0))
          ELSE sessions
    /\ UNCHANGED <<turns, log, crawl, crawls, client, cli>>

\* The consumer stops iterating: the generator is closed at `yield chunk`
\* with GeneratorExit, which `except Exception` does not catch.
ConsumerAbandon(t) ==
    /\ task[t].pc = "yielded"
    /\ task' = [task EXCEPT ![t].pc = "closed", ![t].outcome = "closed"]
    /\ UNCHANGED <<sessions, turns, log, crawl, crawls, client, cli>>

\* await self.storage.save_session(session)
SaveSession(t) ==
    /\ task[t].pc = "save"
    /\ LET rec == [task[t] EXCEPT !.calls = Append(@, "save_session")]
       IN \/ /\ sessions' = StoreAfterSave(sessions, rec.session)
             /\ task' = [task EXCEPT ![t] =
                   [rec EXCEPT !.pc = "done",
                               !.outcome = IF rec.mode = "blocking"
                                             THEN "result" ELSE "exhausted"]]
             /\ log' = Append(log, Completed(t, rec))
          \/ /\ sessions' \in StoresAfterFailedSave(sessions, rec.session)
             /\ task' = [task EXCEPT ![t] = Failed(rec, "StorageError", "save_session")]
             /\ log' = log
    /\ UNCHANGED <<turns, crawl, crawls, client, cli>>

Turn(t) ==
    \/ Call(t)
    \/ LoadContent(t)
    \/ LoadSession(t)
    \/ AgentQuery(t)
    \/ AgentStreamNext(t)
    \/ ConsumerNext(t)
    \/ ConsumerAbandon(t)
    \/ SaveSession(t)

(***************************************************************************)
(* urllib.parse.urlparse, as far as validate_url reads its result          *)
(***************************************************************************)
Letters == {"h", "t", "p", "s", "f", "a", "u", "H", "T", "P", "S"}
Digits == {"8"}
SchemeChars == Letters \cup Digits \cup {"+", "-", "."}

Lower(c) == IF c = "H" THEN "h" ELSE IF c = "T" THEN "t"
            ELSE IF c = "P" THEN "p" ELSE IF c = "S" THEN "s" ELSE c

LowerAll(str) == [i \in 1..Len(str) |-> Lower(str[i])]

\* str.find: the first position >= from holding one of chars, 0 if there is none.
Find(str, chars, from) ==
    LET hits == {i \in from..Len(str) : str[i] \in chars}
    IN IF hits = {} THEN 0 ELSE CHOOSE i \in hits : \A j \in hits : i <= j

\* str.rfind
RFind(str, chars) ==
    LET hits == {i \in 1..Len(str) : str[i] \in chars}
    IN IF hits = {} THEN 0 ELSE CHOOSE i \in hits : \A j \in hits : i >= j

\* urlsplit: a scheme is split off when the text before the first ":" starts
\* with a letter and holds scheme characters only.
HasScheme(url) ==
    LET i == Find(url, {":"}, 1)
    IN /\ i > 1
       /\ url[1] \in Letters
       /\ \A j \in 1..(i - 1) : url[j] \in SchemeChars

UrlScheme(url) ==
    IF HasScheme(url)
    THEN LowerAll(SubSeq(url, 1, Find(url, {":"}, 1) - 1))
    ELSE <<>>

AfterScheme(url) ==
    IF HasScheme(url)
    THEN SubSeq(url, Find(url, {":"}, 1) + 1, Len(url))
    ELSE url

\* urlsplit: after "//" the netloc runs up to the first of "/", "?", "#".
UrlNetloc(url) ==
    LET rest == AfterScheme(url)
    IN IF Len(rest) >= 2 /\ rest[1] = "/" /\ rest[2] = "/"
       THEN LET delim == Find(rest, {"/", "?", "#"}, 3)
            IN IF delim = 0 THEN SubSeq(rest, 3, Len(rest))
               ELSE SubSeq(rest, 3, delim - 1)
       ELSE <<>>

\* ParseResult.hostname: the netloc without "userinfo@" and without ":port".
UrlHostname(url) ==
    LET netloc == UrlNetloc(url)
        hostinfo == SubSeq(netloc, RFind(netloc, {"@"}) + 1, Len(netloc))
        colon == Find(hostinfo, {":"}, 1)
    IN LowerAll(IF colon = 0 THEN hostinfo ELSE SubSeq(hostinfo, 1, colon - 1))

Http == <<"h", "t", "t", "p">>
Https == <<"h", "t", "t", "p", "s">>

\* Crawl4AICrawler.validate_url
validate_url(url) ==
    IF UrlScheme(url) \notin {Http, Https} THEN FALSE
    ELSE IF UrlNetloc(url) = <<>> THEN FALSE
    ELSE TRUE

\* The URLs handed to crawl.
SchemeParts == {<<>>, Http \o <<":">>, <<"H", "T", "T", "P", "S", ":">>,
                <<"f", "t", "p", ":">>}
SlashParts == {<<>>, <<"/", "/">>}
NetlocParts == {<<>>, <<"a">>, <<":", "8">>}

URLs == {s \o l \o n : s \in SchemeParts, l \in SlashParts, n \in NetlocParts}
        \cup {Http \o <<":", "/", "/", "/", "p">>,
              Https \o <<":", "/", "/", "u", "@", "a", ".", "a", "/", "p">>,
              Http \o <<":", "/", "/", "u", "@">>}

(***************************************************************************)
(* crawlers/crawl4ai.py: page extraction                                   *)
(***************************************************************************)
Attrs == {"markdown", "cleaned_html", "html"}

\* A page object of the crawl engine: the attributes it has, and their text
\* (empty stands for "" and for None, both falsy).
PageObject(attrs, markdown, cleaned_html, html) ==
    [attrs |-> attrs, markdown |-> markdown, cleaned_html |-> cleaned_html,
     html |-> html]

\* The pages the modelled engine yields.
EnginePages ==
    {PageObject(Attrs, <<"m">>, <<"c">>, <<"h">>),
     PageObject({"html"}, <<>>, <<>>, <<"h">>),
     PageObject(Attrs, <<>>, <<>>, <<"h">>),
     PageObject(Attrs, <<>>, <<>>, <<>>)}

\* _extract_page_result: "Extract content (prefer markdown)".
ExtractContent(page) ==
    IF "markdown" \in page.attrs /\ page.markdown # <<>> THEN page.markdown
    ELSE IF "cleaned_html" \in page.attrs THEN page.cleaned_html
    ELSE IF "html" \in page.attrs THEN page.html
    ELSE <<>>

\* `if not content: raise ValueError(...)`
ExtractFails(page) == ExtractContent(page) = <<>>

PageResult(url, page) == [url |-> url, content |-> ExtractContent(page)]

(***************************************************************************)
(* models/crawl_result.py                                                  *)
(***************************************************************************)
NoResult == [none |-> TRUE]

\* CrawlResult.success_rate, a float: kept as the fraction num/den.
success_rate(result) ==
    IF result.total_pages = 0 THEN [num |-> 0, den |-> 1]
    ELSE [num |-> result.total_pages - result.failed_pages,
          den |-> result.total_pages]

(***************************************************************************)
(* crawlers/crawl4ai.py: crawl                                             *)
(***************************************************************************)
MaxYield == 3
MaxClock == 3

Depths == {1, 2}
Timeouts == {1}                   \* config.crawler_timeout (ge=1)
MaxPagesInputs == {0, 1, 2}       \* 0 stands for None and 0, both falsy
ResultKinds == {"aiter", "stream", "other"}

IdleCrawl ==
    [pc |-> "idle", url |-> <<>>, depth |-> 1, max_pages |-> 0,
     has_callback |-> FALSE, timeout |-> 1, clock |-> 0, start_time |-> 0,
     deadline |-> 0, traversed_at |-> 0, idx |-> 0, pages |-> <<>>, failed_count |-> 0,
     yielded |-> <<>>, cb_calls |-> <<>>, engine_calls |-> 0,
     error |-> "none", stage |-> "none", result |-> NoResult]

CrawlHandlerPassing(kind) == kind

\* `except CrawlerError: raise` and `except Exception as e: raise CrawlerError`
CrawlHandler(kind) == "CrawlerError"

\* self.progress_callback(message, index, 0), with what the crawl holds at
\* the time of the call: the number of pages appended or counted as failed.
Report(c, index) ==
    [index |-> index, total |-> 0, handled |-> Len(c.pages) + c.failed_count]

Raised(c, kind, stage) ==
    [c EXCEPT !.pc = "raised", !.error = CrawlHandler(kind), !.stage = stage]

Budget(c) == c.timeout * c.depth

\* crawl(url, depth, max_pages): validation, configuration and the
\* "Starting crawl..." report, up to `async with AsyncWebCrawler(...)`.
CrawlCall ==
    /\ crawl.pc = "idle"
    /\ \E url \in URLs, depth \in Depths, max_pages \in MaxPagesInputs,
          has_callback \in BOOLEAN, cb_raises \in BOOLEAN, timeout \in Timeouts :
          LET c == [IdleCrawl EXCEPT !.url = url, !.depth = depth,
                                     !.max_pages = max_pages,
                                     !.has_callback = has_callback,
                                     !.timeout = timeout,
                                     !.start_time = crawl.clock,
                                     !.clock = crawl.clock]
          IN crawl' =
               IF ~validate_url(url) THEN Raised(c, "CrawlerError", "validate")
               ELSE IF has_callback
               THEN LET called == [c EXCEPT !.cb_calls = Append(@, Report(c, 0))]
                    IN IF cb_raises THEN Raised(called, "Exception", "callback")
                       ELSE [called EXCEPT !.pc = "arun"]
               ELSE [c EXCEPT !.pc = "arun"]
    /\ UNCHANGED <<sessions, task, turns, log, crawls, client, cli>>

\* async with AsyncWebCrawler(...) as crawler: results = await crawler.arun(...)
\* followed by the start of asyncio.wait_for(process_with_timeout(), ...).
EngineRun ==
    /\ crawl.pc = "arun"
    /\ LET c == [crawl EXCEPT !.engine_calls = @ + 1]
       IN \/ \E kind \in ResultKinds :
               crawl' = IF kind = "other"
                        THEN Raised(c, "TypeError", "iterate_results")
                        ELSE [c EXCEPT !.pc = "iterating",
                                       !.deadline = c.clock + Budget(c)]
          \/ crawl' = Raised(c, "Exception", "engine")
    /\ UNCHANGED <<sessions, task, turns, log, crawls, client, cli>>

ProcessPageOvershoot(c, page, cb_raises) ==
    LET idx == c.idx + 1
        seen == [c EXCEPT !.idx = idx,
                          !.yielded = Append(@, [page |-> page, cb_raised |->
                                                   c.has_callback /\ cb_raises]),
                          !.cb_calls = IF c.has_callback
                                         THEN Append(@, Report(c, idx)) ELSE @]
    IN IF (c.has_callback /\ cb_raises) \/ ExtractFails(page)
       THEN [seen EXCEPT !.failed_count = @ + 1]
       ELSE LET got == [seen EXCEPT !.pages = Append(@, PageResult(idx, page))]
            IN IF got.max_pages # 0 /\ Len(got.pages) > got.max_pages
               THEN [got EXCEPT !.pc = "closing", !.traversed_at = got.clock]
               ELSE got

ProcessPageReportAfter(c, page, cb_raises) ==
    LET idx == c.idx + 1
        seen == [c EXCEPT !.idx = idx,
                          !.yielded = Append(@, [page |-> page, cb_raised |->
                                                   c.has_callback /\ cb_raises])]
        done == IF ExtractFails(page)
                THEN [seen EXCEPT !.failed_count = @ + 1]
                ELSE [seen EXCEPT !.pages = Append(@, PageResult(idx, page))]
        told == [done EXCEPT !.cb_calls = IF c.has_callback
                                            THEN Append(@, Report(done, idx)) ELSE @]
    IN IF told.max_pages # 0 /\ Len(told.pages) >= told.max_pages
          /\ ~ExtractFails(page)
       THEN [told EXCEPT !.pc = "closing", !.traversed_at = told.clock]
       ELSE told

\* The body of `async for result in self.iterate_results(results)` for one
\* yielded page; from `idx += 1` to `break` or `continue`.
ProcessPage(c, page, cb_raises) ==
    LET idx == c.idx + 1
        seen == [c EXCEPT !.idx = idx,
                          !.yielded = Append(@, [page |-> page, cb_raised |->
                                                   c.has_callback /\ cb_raises]),
                          !.cb_calls = IF c.has_callback
                                         THEN Append(@, Report(c, idx)) ELSE @]
    IN IF (c.has_callback /\ cb_raises) \/ ExtractFails(page)
       THEN [seen EXCEPT !.failed_count = @ + 1]
       ELSE LET got == [seen EXCEPT !.pages = Append(@, PageResult(idx, page))]
            IN IF got.max_pages # 0 /\ Len(got.pages) >= got.max_pages
               THEN [got EXCEPT !.pc = "closing", !.traversed_at = got.clock]
               ELSE got

\* The engine yields its next page before the deadline of wait_for.
EngineYield ==
    /\ crawl.pc = "iterating"
    /\ crawl.clock < crawl.deadline
    /\ Len(crawl.yielded) < MaxYield
    /\ \E page \in EnginePages, cb_raises \in BOOLEAN :
          crawl' = ProcessPage(crawl, page, cb_raises)
    /\ UNCHANGED <<sessions, task, turns, log, crawls, client, cli>>

\* The engine's sequence ends: process_with_timeout returns.
EngineEnd ==
    /\ crawl.pc = "iterating"
    /\ crawl.clock < crawl.deadline
    /\ crawl' = [crawl EXCEPT !.pc = "closing", !.traversed_at = crawl.clock]
    /\ UNCHANGED <<sessions, task, turns, log, crawls, client, cli>>

\* The engine raises while the next page is awaited.
EngineFail ==
    /\ crawl.pc = "iterating"
    /\ crawl.clock < crawl.deadline
    /\ crawl' = Raised(crawl, "Exception", "engine")
    /\ UNCHANGED <<sessions, task, turns, log, crawls, client, cli>>

\* asyncio.wait_for cancels process_with_timeout at its deadline:
\* `except asyncio.TimeoutError: raise CrawlerError(...)`.
Timeout ==
    /\ crawl.pc = "iterating"
    /\ crawl.clock >= crawl.deadline
    /\ crawl' = Raised(crawl, "CrawlerError", "timeout")
    /\ UNCHANGED <<sessions, task, turns, log, crawls, client, cli>>

\* Wall-clock time passes while the crawl is suspended.
Tick ==
    /\ crawl.pc \in {"arun", "iterating", "closing"}
    /\ crawl.clock < MaxClock
    /\ crawl' = [crawl EXCEPT !.clock = @ + 1]
    /\ UNCHANGED <<sessions, task, turns, log, crawls, client, cli>>

CrawlResultCountingYielded(c) ==
    [source_url |-> c.url,
     pages |-> c.pages,
     success |-> c.idx > 0,
     total_pages |-> c.idx,
     failed_pages |-> c.failed_count,
     crawl_depth |-> c.depth,
     started_at |-> c.start_time,
     completed_at |-> c.clock,
     max_pages |-> c.max_pages]

\* "Build final result", after the AsyncWebCrawler context is left.
CrawlResult(c) ==
    [source_url |-> c.url,
     pages |-> c.pages,
     success |-> Len(c.pages) > 0,
     total_pages |-> Len(c.pages),
     failed_pages |-> c.failed_count,
     crawl_depth |-> c.depth,
     started_at |-> c.start_time,
     completed_at |-> c.clock,
     max_pages |-> c.max_pages]

CrawlReturn ==
    /\ crawl.pc = "closing"
    /\ crawl' = [crawl EXCEPT !.pc = "returned", !.result = CrawlResult(crawl)]
    /\ UNCHANGED <<sessions, task, turns, log, crawls, client, cli>>

NextCrawl ==
    \/ CrawlCall
    \/ EngineRun
    \/ EngineYield
    \/ EngineEnd
    \/ EngineFail
    \/ Timeout
    \/ Tick
    \/ CrawlReturn

(***************************************************************************)
(* storage/file_storage.py: crawl results, files and sessions, as called   *)
(* by a client of FileStorage                                              *)
(***************************************************************************)
MaxOps == 2
MaxNow == 3

\* The wall clock advances in half seconds (datetime values are microseconds).
ClockValues == {t * 500000 : t \in 0..MaxNow}

DigitChars == <<"0", "1", "2", "3", "4", "5", "6", "7", "8", "9">>

\* datetime.now().strftime("%Y%m%d_%H%M%S"): the time to the second.
strftime(dt) == <<DigitChars[(dt \div 1000000) + 1]>>

\* str.replace(old, new) for one-character old and new.
Replace(str, old, new) ==
    [i \in 1..Len(str) |-> IF str[i] = old THEN new ELSE str[i]]

\* result_id = f"{domain}_{timestamp}", domain = parsed.netloc.replace(".", "_")
result_id(source_url, now) ==
    Replace(UrlNetloc(source_url), ".", "_") \o <<"_">> \o strftime(now)

\* An Optional[datetime]: None is <<>>, a value dt is <<dt>>.
NoDatetime == <<>>

SourceUrls == {Http \o <<":", "/", "/", "a", ".", "b">>,
               Http \o <<":", "/", "/", "c">>}

StoredPage(url, content, crawled_at) ==
    [url |-> url, content |-> content, title |-> NoObject,
     status_code |-> 200, crawled_at |-> crawled_at, metadata |-> NoMetadata]

TwoPages ==
    <<StoredPage(<<"u">>, <<"x">>, 0), StoredPage(<<"v">>, <<"y">>, 500000)>>

\* The CrawlResult objects handed to save_crawl_result: a crawl of two pages
\* with one failure, and a crawl that got no page.
SampleResults ==
    {[source_url |-> u, pages |-> shape.pages, success |-> shape.success,
      total_pages |-> Len(shape.pages), failed_pages |-> shape.failed,
      crawl_depth |-> shape.depth, started_at |-> 500000,
      completed_at |-> shape.completed,
      error_message |-> shape.error_message, metadata |-> NoMetadata] :
        u \in SourceUrls,
        shape \in {[pages |-> TwoPages, success |-> TRUE, failed |-> 1,
                    depth |-> 2, completed |-> <<1000000>>,
                    error_message |-> NoObject],
                   [pages |-> <<>>, success |-> FALSE, failed |-> 0,
                    depth |-> 1, completed |-> NoDatetime,
                    error_message |-> "timeout"]}}

Formats == {"markdown", "json", "xml"}

\* The files of crawls_path: f"{result_id}.md" and f"{result_id}.json".
CrawlIds ==
    {result_id(u, t) : u \in SourceUrls, t \in ClockValues} \cup {<<"x">>}

CrawlFiles == [id : CrawlIds, ext : {"md", "json"}]

\* CrawlResult.combined_content: one "--- From: url ---" block per page.
combined_content(result) ==
    [i \in 1..Len(result.pages) |->
        [from |-> result.pages[i].url, content |-> result.pages[i].content]]

\* The text _save_as_markdown writes, by the values it interpolates.
save_as_markdown(result) ==
    [source_url |-> result.source_url,
     crawled_at |-> isoformat(result.started_at),
     total_pages |-> result.total_pages,
     success_rate |-> success_rate(result),
     combined_content |-> combined_content(result)]

save_as_json_without_depth(result) ==
    [source_url |-> result.source_url,
     started_at |-> isoformat(result.started_at),
     completed_at |-> IF result.completed_at = NoDatetime THEN NoDatetime
                      ELSE <<isoformat(result.completed_at[1])>>,
     total_pages |-> result.total_pages,
     failed_pages |-> result.failed_pages,
     metadata |-> result.metadata,
     pages |-> [i \in 1..Len(result.pages) |->
                 [url |-> result.pages[i].url,
                  title |-> result.pages[i].title,
                  content |-> result.pages[i].content,
                  status_code |-> result.pages[i].status_code,
                  crawled_at |-> isoformat(result.pages[i].crawled_at),
                  metadata |-> result.pages[i].metadata]]]

\* The data dictionary _save_as_json dumps.
save_as_json(result) ==
    [source_url |-> result.source_url,
     started_at |-> isoformat(result.started_at),
     completed_at |-> IF result.completed_at = NoDatetime THEN NoDatetime
                      ELSE <<isoformat(result.completed_at[1])>>,
     total_pages |-> result.total_pages,
     failed_pages |-> result.failed_pages,
     crawl_depth |-> result.crawl_depth,
     metadata |-> result.metadata,
     pages |-> [i \in 1..Len(result.pages) |->
                 [url |-> result.pages[i].url,
                  title |-> result.pages[i].title,
                  content |-> result.pages[i].content,
                  status_code |-> result.pages[i].status_code,
                  crawled_at |-> isoformat(result.pages[i].crawled_at),
                  metadata |-> result.pages[i].metadata]]]

\* The CrawlResult load_crawl_result builds from the parsed data.
parse_crawl_result(data) ==
    [source_url |-> data.source_url,
     pages |-> [i \in 1..Len(data.pages) |->
                 [url |-> data.pages[i].url,
                  content |-> data.pages[i].content,
                  title |-> data.pages[i].title,
                  status_code |-> data.pages[i].status_code,
                  crawled_at |-> fromisoformat(data.pages[i].crawled_at),
                  metadata |-> data.pages[i].metadata]],
     success |-> TRUE,
     total_pages |-> data.total_pages,
     failed_pages |-> IF "failed_pages" \in DOMAIN data
                      THEN data.failed_pages ELSE 0,
     crawl_depth |-> IF "crawl_depth" \in DOMAIN data
                     THEN data.crawl_depth ELSE 1,
     started_at |-> fromisoformat(data.started_at),
     completed_at |-> IF data.completed_at = NoDatetime THEN NoDatetime
                      ELSE <<fromisoformat(data.completed_at[1])>>,
     error_message |-> NoObject,
     metadata |-> data.metadata]

CrawlsAfterSaveDefaulting(files, result, format, id) ==
    IF format = "json"
    THEN [files EXCEPT ![[id |-> id, ext |-> "json"]] = save_as_json(result)]
    ELSE [files EXCEPT ![[id |-> id, ext |-> "md"]] = save_as_markdown(result)]

\* What a save_crawl_result that writes its file leaves in crawls_path.
CrawlsAfterSave(files, result, format, id) ==
    IF format = "markdown"
    THEN [files EXCEPT ![[id |-> id, ext |-> "md"]] = save_as_markdown(result)]
    ELSE IF format = "json"
    THEN [files EXCEPT ![[id |-> id, ext |-> "json"]] = save_as_json(result)]
    ELSE files

\* A write that fails: before the file is opened (nothing changes) or after
\* open(..., "w") has truncated it.
CrawlsAfterFailedSave(files, format, id) ==
    IF format = "markdown"
    THEN {files, [files EXCEPT ![[id |-> id, ext |-> "md"]] = Corrupt]}
    ELSE IF format = "json"
    THEN {files, [files EXCEPT ![[id |-> id, ext |-> "json"]] = Corrupt]}
    ELSE {files}

\* `except Exception as e: raise StorageError(...) from e`
StorageHandler(kind) == "StorageError"

\* The paths handed to load_content_from_path.
StoragePaths == Paths \cup {"unreadable", "denied"}

\* path.exists(): pathlib answers False for a missing file and re-raises
\* the OSError of stat() for errno other than ENOENT, ENOTDIR, EBADF and
\* ELOOP; a path under a directory that may not be searched raises
\* PermissionError (or answers False, where exists() ignores every OSError).
ExistsOutcomes(path) ==
    IF path = "denied" THEN {"PermissionError", "False"}
    ELSE IF PathExists(path) THEN {"True"} ELSE {"False"}

\* aiofiles.open(path, "r") and read() succeed.
Readable(path) == path # "unreadable"

NoneYet == [given |-> FALSE]

IdleClient ==
    [now |-> 0,
     ops |-> 0,
     trace |-> <<>>,               \* the operations called so far
     op |-> "none",                \* the last operation called
     arg |-> <<>>,                 \* its id, session id or path argument
     format |-> "none",
     outcome |-> "none",           \* "returned" or "raised"
     error |-> "none",
     id |-> <<>>,                  \* the id save_crawl_result returned
     result |-> NoResult,          \* the CrawlResult load_crawl_result returned
     flag |-> FALSE,               \* what session_exists returned
     text |-> <<>>,                \* what load_content_from_path returned
     session |-> NewSession(<<"s">>, 0),   \* the Session object at hand
     prev |-> NewSession(<<"s">>, 0),      \* that object before the last add_message
     given |-> NoneYet,            \* the last result written as json, and its id
     saved |-> {},                 \* the session ids save_session was called for
     kept |-> NoneYet,             \* the last Session save_session wrote
     n |-> 0,                      \* the argument of get_recent_messages
     recent |-> <<>>,              \* what get_recent_messages returned
     restored |-> NoSessionObject, \* Session.from_dict(session.to_dict())
     content |-> <<>>,             \* the arguments of prepare_context
     max_tokens |-> 0,
     before |-> [sessions |-> <<>>, crawls |-> <<>>]]

\* The start of an operation: its name and argument, and the storage before.
Called(name, arg, format) ==
    [client EXCEPT !.ops = @ + 1, !.trace = Append(@, name), !.op = name,
                   !.arg = arg, !.format = format, !.outcome = "none",
                   !.error = "none",
                   !.before = [sessions |-> sessions, crawls |-> crawls]]

Returns(c) == [c EXCEPT !.outcome = "returned"]

Raises(c, kind) == [c EXCEPT !.outcome = "raised", !.error = kind]

\* save_crawl_result(result, format)
SaveCrawlResult ==
    /\ client.ops < MaxOps
    /\ \E result \in SampleResults, format \in Formats, written \in BOOLEAN :
          LET id == result_id(result.source_url, client.now)
              c == Called("save_crawl_result", id, format)
          IN IF format \notin {"markdown", "json"}
             THEN /\ crawls' = CrawlsAfterSave(crawls, result, format, id)
                  /\ client' = Raises([c EXCEPT !.id = <<>>],
                                      StorageHandler("ValueError"))
             ELSE IF written
             THEN /\ crawls' = CrawlsAfterSave(crawls, result, format, id)
                  /\ client' = Returns([c EXCEPT !.id = id,
                                  !.given = IF format = "json"
                                            THEN [given |-> TRUE, id |-> id,
                                                  result |-> result]
                                            ELSE @])
             ELSE /\ crawls' \in CrawlsAfterFailedSave(crawls, format, id)
                  /\ client' = Raises([c EXCEPT !.id = <<>>],
                                      StorageHandler("OSError"))
    /\ UNCHANGED <<sessions, task, turns, log, crawl, cli>>

\* load_crawl_result(result_id)
LoadCrawlResult ==
    /\ client.ops < MaxOps
    /\ \E id \in CrawlIds :
          LET c == Called("load_crawl_result", id, "none")
              file == crawls[[id |-> id, ext |-> "json"]]
          IN client' =
               IF file = NoRecord
               THEN Raises([c EXCEPT !.result = NoResult], "StorageError")
               ELSE IF file = Corrupt
               THEN Raises([c EXCEPT !.result = NoResult],
                           StorageHandler("JSONDecodeError"))
               ELSE Returns([c EXCEPT !.result = parse_crawl_result(file)])
    /\ UNCHANGED <<sessions, task, turns, log, crawl, crawls, cli>>

\* load_content_from_path(path)
LoadContentFromPath ==
    /\ client.ops < MaxOps
    /\ \E path \in StoragePaths : \E exists \in ExistsOutcomes(path) :
          LET c == Called("load_content_from_path", path, "none")
          IN client' =
               IF exists = "PermissionError"
               THEN Raises([c EXCEPT !.text = <<>>], "PermissionError")
               ELSE IF exists = "False"
               THEN Raises([c EXCEPT !.text = <<>>], "StorageError")
               ELSE IF ~Readable(path)
               THEN Raises([c EXCEPT !.text = <<>>],
                           StorageHandler("PermissionError"))
               ELSE Returns([c EXCEPT !.text = FileText(path)])
    /\ UNCHANGED <<sessions, task, turns, log, crawl, crawls, cli>>

\* session_exists(session_id)
SessionExists ==
    /\ client.ops < MaxOps
    /\ \E sid \in SessionIds :
          client' = Returns([Called("session_exists", sid, "none")
                               EXCEPT !.flag = session_exists(sessions, sid)])
    /\ UNCHANGED <<sessions, task, turns, log, crawl, crawls, cli>>

\* load_session(session_id); the client keeps the Session it gets.
ClientLoadSession ==
    /\ client.ops < MaxOps
    /\ \E sid \in SessionIds :
          LET c == Called("load_session", sid, "none")
          IN /\ sessions' = StoreAfterLoad(sessions, sid)
             /\ client' =
                  IF sessions[sid] = Corrupt
                  THEN Raises(c, StorageHandler("JSONDecodeError"))
                  ELSE Returns([c EXCEPT
                           !.session = load_session(sessions, sid, client.now),
                           !.prev = load_session(sessions, sid, client.now)])
    /\ UNCHANGED <<task, turns, log, crawl, crawls, cli>>

\* save_session(session), of the Session at hand.
ClientSaveSession ==
    /\ client.ops < MaxOps
    /\ \E written \in BOOLEAN :
          LET c == [Called("save_session", client.session.session_id, "none")
                      EXCEPT !.saved = @ \cup {client.session.session_id}]
          IN IF written
             THEN /\ sessions' = StoreAfterSave(sessions, client.session)
                  /\ client' = Returns([c EXCEPT !.kept =
                                  [given |-> TRUE, session |-> client.session]])
             ELSE /\ sessions' \in StoresAfterFailedSave(sessions, client.session)
                  /\ client' = Raises(c, StorageHandler("OSError"))
    /\ UNCHANGED <<task, turns, log, crawl, crawls, cli>>

\* session.add_message(role, content), on the Session at hand. The clock is
\* read twice, for the message's timestamp and for updated_at, and does not
\* run backwards.
ClientAddMessage ==
    /\ client.ops < MaxOps
    /\ \E role \in {"user", "assistant"}, content \in {<<"p">>},
          later \in {client.now, client.now + 500000} \cap ClockValues :
          client' = Returns([Called("add_message", content, "none") EXCEPT
                       !.prev = client.session,
                       !.session = add_message(client.session, role, content,
                                               NoMetadata, client.now, later),
                       !.now = later])
    /\ UNCHANGED <<sessions, task, turns, log, crawl, crawls, cli>>

\* Time passes between two operations.
ClientTick ==
    /\ client.now + 500000 \in ClockValues
    /\ client' = [client EXCEPT !.now = @ + 500000]
    /\ UNCHANGED <<sessions, task, turns, log, crawl, crawls, cli>>

NextStorage ==
    \/ SaveCrawlResult
    \/ LoadCrawlResult
    \/ LoadContentFromPath
    \/ SessionExists
    \/ ClientLoadSession
    \/ ClientSaveSession
    \/ ClientAddMessage
    \/ ClientTick

(***************************************************************************)
(* models/session.py and agents/ollama.py: the functions of a Session and  *)
(* prepare_context, applied to sample objects                              *)
(***************************************************************************)
MaxMessages == 3
MaxHistory == 6
MaxContent == 9

SomeMetadata == {<<"k", "v">>}    \* the dict {"k": "v"}

\* A Session of m messages, as m calls of add_message half a second apart
\* leave it (timestamps with and without microseconds).
RECURSIVE SessionOf(_, _, _)
SessionOf(m, context_source, metadata) ==
    IF m = 0
    THEN [NewSession(<<"s">>, 0) EXCEPT !.context_source = context_source,
                                        !.metadata = metadata]
    ELSE add_message(SessionOf(m - 1, context_source, metadata),
                     IF m % 2 = 1 THEN "user" ELSE "assistant",
                     <<DigitChars[m + 1]>>,
                     IF m % 2 = 1 THEN NoMetadata ELSE SomeMetadata,
                     m * 500000, m * 500000)

SampleSessions ==
    {SessionOf(m, context_source, metadata) :
        m \in 0..MaxMessages, context_source \in {NoObject, "doc"},
        metadata \in {NoMetadata, SomeMetadata}}

\* get_recent_messages builds a new list and assigns nothing to self.
SessionAfterGetRecent(session, n) == session

\* len(content) = n
ContentOfLength(n) == [i \in 1..n |-> DigitChars[(i % 10) + 1]]

ContentInputs == {ContentOfLength(n) : n \in 0..MaxContent}

TokenBudgets == {1, 2}

\* session.get_recent_messages(n), on the Session at hand.
ClientGetRecentMessages ==
    /\ client.ops < MaxOps
    /\ \E n \in 0..(MaxMessages + 1) :
          client' = Returns([Called("get_recent_messages", <<>>, "none") EXCEPT
                       !.n = n,
                       !.prev = client.session,
                       !.session = SessionAfterGetRecent(client.session, n),
                       !.recent = get_recent_messages(client.session, n)])
    /\ UNCHANGED <<sessions, task, turns, log, crawl, crawls, cli>>

\* Session.from_dict(session.to_dict()), of the Session at hand.
ClientRoundTrip ==
    /\ client.ops < MaxOps
    /\ client' = Returns([Called("from_dict", <<>>, "none") EXCEPT
                    !.restored = from_dict(to_dict(client.session))])
    /\ UNCHANGED <<sessions, task, turns, log, crawl, crawls, cli>>

\* agent.prepare_context(content, max_tokens)
ClientPrepareContext ==
    /\ client.ops < MaxOps
    /\ \E content \in ContentInputs, max_tokens \in TokenBudgets :
          client' = Returns([Called("prepare_context", <<>>, "none") EXCEPT
                       !.content = content,
                       !.max_tokens = max_tokens,
                       !.text = prepare_context(content, max_tokens)])
    /\ UNCHANGED <<sessions, task, turns, log, crawl, crawls, cli>>

NextModels ==
    \/ ClientGetRecentMessages
    \/ ClientRoundTrip
    \/ ClientPrepareContext
    \/ ClientSaveSession
    \/ ClientLoadSession

(***************************************************************************)
(* cli/commands/crawl.py, cli/commands/query.py                            *)
(***************************************************************************)
Commands == {"crawl url", "query ask", "query interactive"}

\* What crawler.crawl, storage.save_crawl_result(format="json") and the
\* orchestrator may raise inside, before their own except clauses.
CrawlFailures == {"CrawlerError", "TypeError", "Exception"}
SaveFailures == {"OSError"}
OrchestratorFailures == {"StorageError", "ValueError"} \cup AgentFailures

\* The lines typed at the prompt of interactive mode.
Questions == {"exit", "QUIT", "  ", "what?"}
QuestionLower(question) == IF question = "QUIT" THEN "quit" ELSE question
QuestionStrip(question) == IF question = "  " THEN "" ELSE question

IdleCli ==
    [pc |-> "idle", command |-> "none", stream |-> FALSE, inputs |-> 0,
     raised |-> <<>>,           \* what the collaborators raised, in order
     printed |-> <<>>,          \* what the command reported, in order
     exit_status |-> 0]

\* except StorageError / except CrawlerError / except Exception, each
\* ending in raise typer.Exit(1).
CrawlUrlExcept(kind) ==
    [line |-> IF kind = "StorageError" THEN "Storage error"
              ELSE IF kind = "CrawlerError" THEN "Crawler error"
              ELSE "Unexpected error",
     status |-> 1]

\* except StorageError / except AgentError / except Exception, each ending
\* in raise typer.Exit(1).
QueryAskExcept(kind) ==
    [line |-> IF kind = "StorageError" THEN "Storage error"
              ELSE IF kind = "AgentError" THEN "Agent error"
              ELSE "Unexpected error",
     status |-> 1]

\* The command function returns (status 0) or typer.Exit(status) leaves it.
CliExit(c, status) == [c EXCEPT !.pc = "exited", !.exit_status = status]

CliRaise(c, kind, handled) ==
    CliExit([c EXCEPT !.raised = Append(@, kind),
                      !.printed = Append(@, handled.line)],
            handled.status)

\* except Exception as e inside the interactive loop: the error is printed
\* and the loop goes on to the next prompt.
InteractiveExcept(c, kind) ==
    [c EXCEPT !.pc = "input",
              !.raised = Append(@, kind),
              !.printed = Append(@, "Error")]

\* Ctrl-C in interactive mode.  `except KeyboardInterrupt: break` ends the
\* function normally; under asyncio.run of Python 3.11 and later the first
\* SIGINT cancels the main task instead, the CancelledError passes both
\* except clauses and the runner's KeyboardInterrupt aborts the command.
InterruptStatuses == {0, 1}

\* web-intel crawl url URL | query ask QUESTION -s SOURCE [--stream] |
\* query interactive -s SOURCE
CliRun ==
    /\ cli.pc = "idle"
    /\ \E command \in Commands, stream \in BOOLEAN :
          cli' = [IdleCli EXCEPT
                    !.pc = IF command = "crawl url" THEN "crawl"
                           ELSE IF command = "query ask" THEN "ask"
                           ELSE "input",
                    !.command = command,
                    !.stream = (command = "query ask" /\ stream)]
    /\ UNCHANGED <<sessions, task, turns, log, crawl, crawls, client>>

\* crawl_res = await crawler.crawl(url)
CliCrawl ==
    /\ cli.pc = "crawl"
    /\ \/ cli' = [cli EXCEPT !.pc = "save"]
       \/ \E kind \in CrawlFailures :
             cli' = CliRaise(cli, CrawlHandler(kind),
                             CrawlUrlExcept(CrawlHandler(kind)))
    /\ UNCHANGED <<sessions, task, turns, log, crawl, crawls, client>>

\* await storage.save_crawl_result(result=crawl_res, format="json"), the two
\* prints, and the end of the function.
CliSave ==
    /\ cli.pc = "save"
    /\ \/ cli' = CliExit([cli EXCEPT !.printed =
                               @ \o <<"Crawl Response", "Storage Response">>], 0)
       \/ \E kind \in SaveFailures :
             cli' = CliRaise(cli, StorageHandler(kind),
                             CrawlUrlExcept(StorageHandler(kind)))
    /\ UNCHANGED <<sessions, task, turns, log, crawl, crawls, client>>

\* orchestrator.stream_query consumed to its end, or query_with_source.
CliAsk ==
    /\ cli.pc = "ask"
    /\ LET mode == IF cli.stream THEN "stream" ELSE "blocking"
       IN \/ cli' = CliExit([cli EXCEPT !.printed = Append(@, "Answer")], 0)
          \/ \E kind \in OrchestratorFailures :
                cli' = CliRaise(cli, Handler(mode, kind),
                                QueryAskExcept(Handler(mode, kind)))
    /\ UNCHANGED <<sessions, task, turns, log, crawl, crawls, client>>

\* question = console.input(...): exit or quit leaves the loop, a blank line
\* is skipped, anything else is a question for the orchestrator.
CliInput ==
    /\ cli.pc = "input"
    /\ \E question \in Questions :
          IF QuestionLower(question) \in {"exit", "quit"}
          THEN cli' = CliExit([cli EXCEPT !.printed = Append(@, "Goodbye!")], 0)
          ELSE /\ cli.inputs < MaxInputs
               /\ cli' = [cli EXCEPT
                            !.inputs = @ + 1,
                            !.pc = IF QuestionStrip(question) = "" THEN "input"
                                   ELSE "thinking"]
    /\ UNCHANGED <<sessions, task, turns, log, crawl, crawls, client>>

\* result = await orchestrator.query_with_source(...) inside the loop.
CliThink ==
    /\ cli.pc = "thinking"
    /\ \/ cli' = [cli EXCEPT !.pc = "input",
                             !.printed = Append(@, "Assistant")]
       \/ \E kind \in OrchestratorFailures :
             cli' = InteractiveExcept(cli, Handler("blocking", kind))
    /\ UNCHANGED <<sessions, task, turns, log, crawl, crawls, client>>

CliInterrupt ==
    /\ cli.pc \in {"input", "thinking"}
    /\ \E status \in InterruptStatuses :
          cli' = CliExit([cli EXCEPT !.printed = Append(@, "Interrupted")],
                         status)
    /\ UNCHANGED <<sessions, task, turns, log, crawl, crawls, client>>

NextCli ==
    \/ CliRun
    \/ CliCrawl
    \/ CliSave
    \/ CliAsk
    \/ CliInput
    \/ CliThink
    \/ CliInterrupt

Init ==
    /\ sessions = [s \in SessionIds |-> NoRecord]
    /\ task = [t \in Tasks |-> IdleTask]
    /\ turns = 0
    /\ log = <<>>
    /\ crawl = IdleCrawl
    /\ crawls = [f \in CrawlFiles |-> NoRecord]
    /\ client = IdleClient
    /\ cli = IdleCli

\* Turns run one after another: a single task.
Next == Turn(1)

Spec == Init /\ [][Next]_vars

\* Two calls, one per task, interleave at their suspension points.
TurnOnce(t) ==
    \/ task[t].pc = "idle" /\ Call(t)
    \/ LoadContent(t)
    \/ LoadSession(t)
    \/ AgentQuery(t)
    \/ AgentStreamNext(t)
    \/ ConsumerNext(t)
    \/ ConsumerAbandon(t)
    \/ SaveSession(t)

NextConc == \E t \in Tasks : TurnOnce(t)

\* The session file may hold an earlier turn when the two calls start.
EarlierTurn ==
    to_dict([add_message(add_message(NewSession(<<"s">>, 0), "user", <<"p">>,
                                     NoMetadata, 0, 0),
                         "assistant", <<"a">>, NoMetadata, 0, 0)
             EXCEPT !.context_source = "doc"])

InitConc ==
    /\ sessions \in [SessionIds -> {NoRecord, EarlierTurn}]
    /\ task = [t \in Tasks |-> IdleTask]
    /\ turns = 0
    /\ log = <<>>
    /\ crawl = IdleCrawl
    /\ crawls = [f \in CrawlFiles |-> NoRecord]
    /\ client = IdleClient
    /\ cli = IdleCli

SpecConc == InitConc /\ [][NextConc]_vars

SpecCrawl == Init /\ [][NextCrawl]_vars

SpecStorage == Init /\ [][NextStorage]_vars

\* The client holds one of the sample sessions.
InitModels ==
    /\ sessions = [s \in SessionIds |-> NoRecord]
    /\ task = [t \in Tasks |-> IdleTask]
    /\ turns = 0
    /\ log = <<>>
    /\ crawl = IdleCrawl
    /\ crawls = [f \in CrawlFiles |-> NoRecord]
    /\ \E session \in SampleSessions :
          client = [IdleClient EXCEPT !.session = session, !.prev = session]
    /\ cli = IdleCli

SpecModels == InitModels /\ [][NextModels]_vars

\* The session file holds a conversation of up to MaxHistory messages when
\* the turns start.
InitHistory ==
    /\ sessions \in [SessionIds ->
          {NoRecord} \cup {to_dict(SessionOf(m, "doc", NoMetadata)) :
                              m \in 1..MaxHistory}]
    /\ task = [t \in Tasks |-> IdleTask]
    /\ turns = 0
    /\ log = <<>>
    /\ crawl = IdleCrawl
    /\ crawls = [f \in CrawlFiles |-> NoRecord]
    /\ client = IdleClient
    /\ cli = IdleCli

\* One call, on the conversation found in storage.
NextHistory == TurnOnce(1)

SpecHistory == InitHistory /\ [][NextHistory]_vars

SpecCli == Init /\ [][NextCli]_vars

(***************************************************************************)
(* Properties of the query orchestrator                                    *)
(***************************************************************************)
RECURSIVE ConcatAll(_)
ConcatAll(strs) ==
    IF strs = <<>> THEN <<>> ELSE Head(strs) \o ConcatAll(Tail(strs))

\* The transcript that the completed turns on sid amount to.
RECURSIVE Transcript(_, _)
Transcript(entries, sid) ==
    IF entries = <<>> THEN <<>>
    ELSE LET e == Head(entries)
         IN (IF e.sid = sid
             THEN <<Message("user", e.prompt, 0, NoMetadata),
                    Message("assistant", ConcatAll(e.frags), 0, NoMetadata)>>
             ELSE <<>>) \o Transcript(Tail(entries), sid)

IsRecord(stored) == stored \notin {NoRecord, Corrupt}

\* C1: with turns run one after another from no persisted record, the session
\* loaded after k completed turns on a session id holds exactly the 2k
\* messages (user, prompt_i), (assistant, response_i) in turn order, the
\* response of a streamed turn being the concatenation of its fragments.
C1_TranscriptOfCompletedTurns ==
    \A sid \in SessionIds :
        sessions[sid] # Corrupt =>
            load_session(sessions, sid, 0).messages = Transcript(log, sid)

C1_Witness ==
    \E sid \in SessionIds :
        /\ IsRecord(sessions[sid])
        /\ Len(sessions[sid].messages) = 4
        /\ Len(log) = 2
        /\ log[1].sid = sid /\ log[1].mode = "blocking"
        /\ log[2].sid = sid /\ log[2].mode = "stream" /\ Len(log[2].frags) = 2

PreModelStages == {"load_content", "load_session", "build_context", "model"}

\* C2: a query_with_source call with a session id that fails while loading
\* content, loading the session, building the QueryContext or invoking the
\* model leaves the persisted record of that id as it was before the call.
C2_FailedQueryLeavesRecord ==
    \A t \in Tasks :
        (/\ task[t].pc = "failed"
         /\ task[t].mode = "blocking"
         /\ task[t].sid # NoSession
         /\ task[t].stage \in PreModelStages)
        => sessions[task[t].sid] = task[t].before

C2_Witness ==
    /\ task[1].pc = "failed"
    /\ task[1].mode = "blocking"
    /\ task[1].sid # NoSession
    /\ task[1].stage = "model"
    /\ task[1].before = NoRecord
    /\ task[1].session = NewSession(task[1].sid, 0)

\* C3: stream_query persists the message pair only when the fragments have
\* been consumed to exhaustion: while it runs, when the consumer abandons it
\* and when the model client fails, the persisted session is as before the call.
C3_StreamSavesOnlyAtExhaustion ==
    \A t \in Tasks :
        (/\ task[t].mode = "stream"
         /\ task[t].sid # NoSession
         /\ \/ task[t].pc \in {"load_content", "load_session", "dispatch",
                               "streaming", "yielded", "save", "closed"}
            \/ task[t].pc = "failed" /\ task[t].stage \in PreModelStages)
        => sessions[task[t].sid] = task[t].before

C3_Witness ==
    /\ task[1].mode = "stream"
    /\ task[1].pc = "closed"
    /\ Len(task[1].frags) = 1
    /\ task[1].sid # NoSession
    /\ IsRecord(task[1].before)
    /\ Len(sessions[task[1].sid].messages) = 2

\* C4: on both paths a StorageError raised while loading reaches the caller
\* as a StorageError, an AgentError of the model client as an AgentError, any
\* other exception as an AgentError, and no third kind is observed.
C4_ErrorKindsPreserved ==
    \A t \in Tasks :
        task[t].pc = "failed" =>
            /\ task[t].outcome \in {"StorageError", "AgentError"}
            /\ (task[t].raised = "StorageError"
                    /\ task[t].stage \in {"load_content", "load_session"})
                => task[t].outcome = "StorageError"
            /\ task[t].raised = "AgentError" => task[t].outcome = "AgentError"
            /\ task[t].raised \notin {"StorageError", "AgentError"}
                => task[t].outcome = "AgentError"

C6_InvalidUrlFailsFast ==
    (/\ crawl.pc # "idle"
     /\ \/ UrlScheme(crawl.url) \notin {Http, Https}
        \/ UrlHostname(crawl.url) = <<>>)
    => /\ ~validate_url(crawl.url)
       /\ crawl.pc = "raised"
       /\ crawl.error = "CrawlerError"
       /\ crawl.engine_calls = 0
       /\ crawl.cb_calls = <<>>
       /\ crawl.result = NoResult

\* C7: the success_rate of every returned CrawlResult lies between 0 and 1,
\* and is 0 when total_pages is 0.
C7_SuccessRateInUnitInterval ==
    crawl.pc = "returned" =>
        LET rate == success_rate(crawl.result)
        IN /\ rate.den > 0
           /\ 0 <= rate.num
           /\ rate.num <= rate.den
           /\ crawl.result.total_pages = 0 => rate.num = 0

AllYieldedFail(c) ==
    \A i \in 1..Len(c.yielded) : ExtractFails(c.yielded[i].page)

\* C8: every returned CrawlResult has total_pages = len(pages) and
\* success = (len(pages) > 0); when every yielded page fails extraction the
\* crawl still returns, with success false and no pages.
C8_ResultAssembly ==
    crawl.pc = "returned" =>
        /\ crawl.result # NoResult
        /\ crawl.result.total_pages = Len(crawl.result.pages)
        /\ crawl.result.success = (Len(crawl.result.pages) > 0)
        /\ AllYieldedFail(crawl) =>
              /\ crawl.result.success = FALSE
              /\ crawl.result.pages = <<>>
              /\ crawl.result.failed_pages = Len(crawl.yielded)

C8_Witness ==
    /\ crawl.pc = "returned"
    /\ Len(crawl.yielded) = 2
    /\ AllYieldedFail(crawl)
    /\ crawl.result.success = FALSE
    /\ crawl.result.total_pages = 0

\* The yielded pages whose extraction succeeds, as page results in yield order.
RECURSIVE Extracted(_, _)
Extracted(yielded, n) ==
    IF n = 0 THEN <<>>
    ELSE Extracted(yielded, n - 1) \o
         (IF ExtractFails(yielded[n].page) THEN <<>>
          ELSE <<PageResult(n, yielded[n].page)>>)

ExtractionFailures(yielded) ==
    Cardinality({i \in 1..Len(yielded) : ExtractFails(yielded[i].page)})

\* C9: with no page cap and no timeout the returned pages are exactly the
\* yielded pages whose extraction succeeded, in yield order, and failed_pages
\* is the number of yielded pages whose extraction failed.
C9_PagesAreExtractedSubsequence ==
    (crawl.pc = "returned" /\ crawl.max_pages = 0) =>
        /\ crawl.result.pages = Extracted(crawl.yielded, Len(crawl.yielded))
        /\ crawl.result.failed_pages = ExtractionFailures(crawl.yielded)

\* C10: a crawl returns a result only if its traversal completed within
\* per_request_timeout * depth of wall-clock time since the crawl started.
C10_NoResultPastBudget ==
    crawl.pc \in {"closing", "returned"} =>
        crawl.traversed_at - crawl.start_time <= Budget(crawl)

\* C11: with a positive max_pages, len(pages) never exceeds max_pages, and
\* the page that brings len(pages) to max_pages is the last one handled: none
\* after it is extracted, counted as failed or reported to the callback.
C11_PageCap ==
    (crawl.pc # "idle" /\ crawl.max_pages > 0) =>
        /\ Len(crawl.pages) <= crawl.max_pages
        /\ Len(crawl.pages) = crawl.max_pages =>
              /\ crawl.pc \in {"closing", "returned"}
              /\ crawl.pages[Len(crawl.pages)].url = Len(crawl.yielded)
              /\ crawl.idx = Len(crawl.yielded)
              /\ crawl.failed_count = Len(crawl.yielded) - crawl.max_pages
              /\ crawl.has_callback =>
                    crawl.cb_calls[Len(crawl.cb_calls)].index = Len(crawl.yielded)

C11_Witness ==
    /\ crawl.pc = "returned"
    /\ crawl.max_pages = 2
    /\ Len(crawl.pages) = 2
    /\ Len(crawl.yielded) = 3
    /\ crawl.has_callback
    /\ Len(crawl.cb_calls) = 4

\* C12: when the engine fails to start or raises while yielding, crawl ends
\* with a CrawlerError and no CrawlResult, whatever pages were collected, and
\* the engine's crawl is invoked at most once per call.
C12_EngineFailureIsOneCrawlerError ==
    /\ crawl.engine_calls <= 1
    /\ (crawl.pc = "raised" /\ crawl.stage \in {"engine", "iterate_results"}) =>
          /\ crawl.error = "CrawlerError"
          /\ crawl.result = NoResult
          /\ crawl.engine_calls = 1

C12_Witness ==
    /\ crawl.pc = "raised"
    /\ crawl.stage = "engine"
    /\ Len(crawl.pages) = 2
    /\ crawl.failed_count = 1
    /\ crawl.result = NoResult

\* C14 as stated: each yielded page is reported exactly once, with its
\* 1-based position and total 0, after it was appended or counted as failed.
C14_ReportedAfterProcessing ==
    (crawl.has_callback /\ crawl.cb_calls # <<>>) =>
        /\ Len(crawl.cb_calls) = Len(crawl.yielded) + 1
        /\ \A i \in 1..Len(crawl.yielded) :
              crawl.cb_calls[i + 1] = [index |-> i, total |-> 0, handled |-> i]

\* C14 amended: each yielded page is reported exactly once, with its 1-based
\* position and total 0, before it is extracted: at the time of the report
\* only the pages before it have been appended or counted as failed.
C14_ReportedBeforeProcessing ==
    /\ ~crawl.has_callback => crawl.cb_calls = <<>>
    /\ (crawl.has_callback /\ crawl.cb_calls # <<>>) =>
          /\ Len(crawl.cb_calls) = Len(crawl.yielded) + 1
          /\ \A i \in 1..Len(crawl.yielded) :
                crawl.cb_calls[i + 1] =
                    [index |-> i, total |-> 0, handled |-> i - 1]

C14_Witness ==
    /\ crawl.pc = "returned"
    /\ crawl.has_callback
    /\ Len(crawl.yielded) = 2
    /\ Len(crawl.pages) = 1
    /\ crawl.failed_count = 1
    /\ Len(crawl.cb_calls) = 3

\* The text of an attribute of a page object; absent counts as empty.
AttrText(page, attr) ==
    IF attr \notin page.attrs THEN <<>>
    ELSE IF attr = "markdown" THEN page.markdown
    ELSE IF attr = "cleaned_html" THEN page.cleaned_html
    ELSE page.html

FirstNonEmpty(page) ==
    IF AttrText(page, "markdown") # <<>> THEN AttrText(page, "markdown")
    ELSE IF AttrText(page, "cleaned_html") # <<>>
         THEN AttrText(page, "cleaned_html")
    ELSE AttrText(page, "html")

\* C13: a yielded page (whose report did not raise) is extracted with the
\* first non-empty of markdown, cleaned HTML and raw HTML as content, and
\* fails only when all three are absent or empty.
C13_FirstNonEmptyContent ==
    \A i \in 1..Len(crawl.yielded) :
        (~crawl.yielded[i].cb_raised
            /\ FirstNonEmpty(crawl.yielded[i].page) # <<>>) =>
                \E k \in 1..Len(crawl.pages) :
                    /\ crawl.pages[k].url = i
                    /\ crawl.pages[k].content =
                           FirstNonEmpty(crawl.yielded[i].page)

(***************************************************************************)
(* Properties of the file storage and of Session                           *)
(***************************************************************************)
\* The last call loaded the id of the last result written as json.
LoadedTheSaved ==
    /\ client.op = "load_crawl_result"
    /\ client.outcome = "returned"
    /\ client.given.given
    /\ client.arg = client.given.id

\* C15: the result loaded from the id of a json save has the source_url,
\* total_pages, failed_pages and crawl_depth of the saved result, and the
\* same pages in the same order with equal url and content.
C15_JsonRoundTrip ==
    LoadedTheSaved =>
        LET r == client.given.result
            l == client.result
        IN /\ l.source_url = r.source_url
           /\ l.total_pages = r.total_pages
           /\ l.failed_pages = r.failed_pages
           /\ l.crawl_depth = r.crawl_depth
           /\ Len(l.pages) = Len(r.pages)
           /\ \A i \in 1..Len(r.pages) :
                 /\ l.pages[i].url = r.pages[i].url
                 /\ l.pages[i].content = r.pages[i].content

C15_Witness ==
    /\ LoadedTheSaved
    /\ client.trace = <<"save_crawl_result", "load_crawl_result">>
    /\ Len(client.result.pages) = 2
    /\ client.result.crawl_depth = 2
    /\ client.result.failed_pages = 1

\* C16: the result loaded from the id of a json save has the success flag
\* and the error_message of the saved result.
C16_SuccessAndErrorSurvive ==
    LoadedTheSaved =>
        /\ client.result.success = client.given.result.success
        /\ client.result.error_message = client.given.result.error_message

C18_NeverSavedSession ==
    \A sid \in SessionIds \ client.saved :
        /\ ~session_exists(sessions, sid)
        /\ (client.op = "session_exists" /\ client.arg = sid) => ~client.flag
        /\ (client.op = "load_session" /\ client.arg = sid) =>
              /\ client.outcome = "returned"
              /\ client.session.session_id = sid
              /\ client.session.messages = <<>>

C18_Witness ==
    /\ client.trace = <<"load_session", "session_exists">>
    /\ client.saved = {}
    /\ client.outcome = "returned"
    /\ ~client.flag

\* C19: a load of the file storage that fails raises StorageError and
\* leaves sessions_path and crawls_path as they were.
C19_FailingLoadsRaiseStorageError ==
    (client.op \in {"load_content_from_path", "load_crawl_result", "load_session"}
        /\ client.outcome = "raised") =>
            /\ client.error = "StorageError"
            /\ sessions = client.before.sessions
            /\ crawls = client.before.crawls

\* C20: add_message extends messages by one element at the end, leaves the
\* earlier messages as they were, and sets updated_at to a time that is at
\* least the new message's timestamp and at least its previous value.
C20_AppendOnlyAndMonotone ==
    client.op = "add_message" =>
        LET n == Len(client.prev.messages)
            new == client.session.messages[n + 1]
        IN /\ Len(client.session.messages) = n + 1
           /\ SubSeq(client.session.messages, 1, n) = client.prev.messages
           /\ new.content = client.arg
           /\ client.session.updated_at >= new.timestamp
           /\ client.session.updated_at >= client.prev.updated_at

C20_Witness ==
    /\ client.trace = <<"add_message", "add_message">>
    /\ Len(client.session.messages) = 2
    /\ client.session.messages[1].role = "user"
    /\ client.session.messages[2].role = "assistant"
    /\ client.session.messages[1].timestamp < client.session.messages[2].timestamp
    /\ client.session.updated_at > client.session.messages[2].timestamp

(***************************************************************************)
(* Properties of Session and of prepare_context                            *)
(***************************************************************************)
Min(a, b) == IF a <= b THEN a ELSE b

\* C21: get_recent_messages(n) on a session of m messages returns the
\* role/content pairs of the last min(n, m) messages, in order, and leaves
\* the session as it was.
C21_LastMinNM ==
    client.op = "get_recent_messages" =>
        LET m == Len(client.prev.messages)
            k == Min(client.n, m)
        IN /\ Len(client.recent) = k
           /\ \A i \in 1..Len(client.recent) :
                 /\ m - Len(client.recent) + i >= 1
                 /\ client.recent[i] =
                       [role |-> client.prev.messages[m - Len(client.recent) + i].role,
                        content |-> client.prev.messages[m - Len(client.recent) + i].content]
           /\ client.session = client.prev

C23_PrepareContext ==
    client.op = "prepare_context" =>
        LET c == client.content
            max_chars == 4 * client.max_tokens
        IN /\ Len(c) <= max_chars => client.text = c
           /\ Len(c) > max_chars =>
                 /\ Len(client.text) = max_chars + Len(TruncationNotice)
                 /\ SubSeq(client.text, 1, max_chars) = SubSeq(c, 1, max_chars)
                 /\ SubSeq(client.text, max_chars + 1, Len(client.text)) =
                       TruncationNotice

C23_Witness ==
    /\ client.trace = <<"prepare_context", "prepare_context">>
    /\ Len(client.content) = 9
    /\ client.max_tokens = 2
    /\ Len(client.text) = 8 + Len(TruncationNotice)

(***************************************************************************)
(* Properties of the prompt                                                *)
(***************************************************************************)
\* The messages of the session a turn loaded.
LoadedMessages(rec) ==
    IF rec.loaded \in {NoRecord, Corrupt} THEN <<>> ELSE rec.loaded.messages

HistoryLines(prompt) == SelectSeq(prompt, LAMBDA part : part.part = "history")

\* C24: in a turn with a session id whose session holds m messages, the
\* prompt sent to the model holds min(5, m) history lines, those of the last
\* min(5, m) messages in order with the role capitalized, after the content
\* and before the question.
C24_PromptHistory ==
    \A t \in Tasks :
        (task[t].sid # NoSession /\ task[t].sent # <<>>) =>
            LET msgs == LoadedMessages(task[t])
                m == Len(msgs)
                k == Min(5, m)
                sent == task[t].sent
                lines == HistoryLines(sent)
            IN /\ Len(lines) = k
               /\ \A i \in 1..k :
                     /\ lines[i].text = msgs[m - k + i].content
                     /\ lines[i].role =
                           (IF msgs[m - k + i].role = "user"
                            THEN "User" ELSE "Assistant")
               /\ \A i \in 1..Len(sent) :
                     sent[i].part = "history" =>
                        /\ \E j \in 1..(i - 1) : sent[j].part = "content"
                        /\ \E j \in (i + 1)..Len(sent) :
                              /\ sent[j].part = "question"
                              /\ sent[j].text = task[t].prompt

C24_Witness ==
    /\ task[1].pc = "done"
    /\ task[1].sid # NoSession
    /\ Len(LoadedMessages(task[1])) = 6
    /\ Len(HistoryLines(task[1].sent)) = 5
    /\ HistoryLines(task[1].sent)[1].role = "Assistant"

(***************************************************************************)
(* Further properties of the query orchestrator                            *)
(***************************************************************************)
ModelCalls == {"query", "stream_query"}

ModelInvoked(rec) == \E i \in 1..Len(rec.calls) : rec.calls[i] \in ModelCalls

\* The turn has loaded its content (and its session, if any) and has gone
\* on to build the QueryContext.
ContextBuilt(rec) ==
    /\ rec.pc \notin {"idle", "load_content", "load_session"}
    /\ rec.stage \notin {"load_content", "load_session"}

\* C25: building the QueryContext fails with ValueError, and leaves the turn
\* without a context, exactly when the content is empty or max_tokens <= 0;
\* on an empty source file the turn fails there, before the model is invoked.
C25_ContextValidation ==
    \A t \in Tasks :
        ContextBuilt(task[t]) =>
            /\ (task[t].stage = "build_context") <=>
                  (task[t].content = <<>> \/ task[t].max_tokens <= 0)
            /\ task[t].stage = "build_context" =>
                  /\ task[t].pc = "failed"
                  /\ task[t].raised = "ValueError"
                  /\ ~ModelInvoked(task[t])
                  /\ task[t].sent = <<>>
            /\ task[t].path = "empty" => task[t].stage = "build_context"

C25_Witness ==
    /\ task[1].pc = "failed"
    /\ task[1].stage = "build_context"
    /\ task[1].path = "empty"
    /\ task[1].max_tokens > 0
    /\ task[1].calls = <<"load_content", "load_session">>

\* The collaborator calls of a turn that runs to its end, in order.
ExpectedCalls(rec) ==
    <<"load_content">>
    \o (IF rec.sid # NoSession THEN <<"load_session">> ELSE <<>>)
    \o <<IF rec.mode = "blocking" THEN "query" ELSE "stream_query">>
    \o (IF rec.sid # NoSession THEN <<"save_session">> ELSE <<>>)

IsPrefix(a, b) == Len(a) <= Len(b) /\ a = SubSeq(b, 1, Len(a))

Saved(rec) == \E i \in 1..Len(rec.calls) : rec.calls[i] = "save_session"

\* C27: the collaborator calls of a turn are load content, load session (with
\* a session id), model, save session (with a session id), in this order;
\* the model is not invoked after a failed load, the session is not saved
\* without a session id or after a failed model call, and every turn with a
\* session id loads the session from storage before invoking the model.
C27_CollaboratorOrder ==
    \A t \in Tasks :
        /\ IsPrefix(task[t].calls, ExpectedCalls(task[t]))
        /\ (task[t].stage \in {"load_content", "load_session"}
              \/ task[t].loaded = Corrupt
              \/ (task[t].pc # "idle" /\ ~PathExists(task[t].path)))
                 => ~ModelInvoked(task[t])
        /\ (task[t].sid = NoSession \/ task[t].stage = "model")
                 => ~Saved(task[t])
        /\ (ModelInvoked(task[t]) /\ task[t].sid # NoSession) =>
              /\ task[t].calls[2] = "load_session"
              /\ task[t].loaded = task[t].before
              /\ task[t].history =
                    [i \in 1..Len(LoadedMessages(task[t])) |->
                        [role |-> LoadedMessages(task[t])[i].role,
                         content |-> LoadedMessages(task[t])[i].content]]

C27_Witness ==
    /\ turns = 2
    /\ task[1].pc = "done"
    /\ task[1].mode = "stream"
    /\ task[1].calls =
          <<"load_content", "load_session", "stream_query", "save_session">>
    /\ Len(task[1].history) = 2

\* C28: after any sequence of turns, one after another, a persisted session
\* holds an even number of messages whose roles alternate user, assistant
\* from the first message on.
C28_PairsAlternate ==
    \A sid \in SessionIds :
        sessions[sid] \notin {NoRecord, Corrupt} =>
            /\ Len(sessions[sid].messages) % 2 = 0
            /\ \A i \in 1..Len(sessions[sid].messages) :
                  sessions[sid].messages[i].role =
                      (IF i % 2 = 1 THEN "user" ELSE "assistant")

C28_Witness ==
    /\ turns = 2
    /\ task[1].pc = "closed"
    /\ task[1].sid = <<"s">>
    /\ sessions[<<"s">>] \notin {NoRecord, Corrupt}
    /\ Len(sessions[<<"s">>].messages) = 2

\* C29: every assistant message of a persisted session has non-empty
\* content, and a turn whose model output is empty saves nothing.
C29_NoEmptyAssistantMessage ==
    /\ \A sid \in SessionIds :
          sessions[sid] \notin {NoRecord, Corrupt} =>
              \A i \in 1..Len(sessions[sid].messages) :
                  sessions[sid].messages[i].role = "assistant" =>
                      sessions[sid].messages[i].content # <<>>
    /\ \A t \in Tasks :
          (ModelInvoked(task[t]) /\ task[t].full_response = <<>>) =>
              ~Saved(task[t])

\* C30: failed_count counts only the yielded pages whose content extraction
\* failed: a page during whose handling the progress callback raised is not
\* counted as failed and, when its content can be extracted, is in pages.
C30_CallbackFailureIsNoPageFailure ==
    crawl.pc # "idle" =>
        /\ crawl.failed_count =
              Cardinality({i \in 1..Len(crawl.yielded) :
                              ExtractFails(crawl.yielded[i].page)})
        /\ \A i \in 1..Len(crawl.yielded) :
              (crawl.yielded[i].cb_raised /\ ~ExtractFails(crawl.yielded[i].page))
                  => \E j \in 1..Len(crawl.pages) : crawl.pages[j].url = i

\* C26: a run of crawl url, query ask or query interactive during which a
\* StorageError, CrawlerError or AgentError occurred ends with a non-zero
\* exit status.
C26_ErrorsExitNonZero ==
    (cli.pc = "exited"
       /\ \E i \in 1..Len(cli.raised) :
             cli.raised[i] \in {"StorageError", "CrawlerError", "AgentError"})
        => cli.exit_status # 0
====
